---- MODULE Spec2Model ----
(***************************************************************************)
(* A model of the RAG chatbot's orchestration core:                        *)
(*   - MCPServer (core/mcp_server.py): tool dispatch over the event loop   *)
(*     and a ThreadPoolExecutor of 4 workers, and its cleanup;             *)
(*   - RateLimiter (interfaces/api.py): the per-client sliding window;     *)
(*   - the query pipeline of the CLI and of the API /query handler;        *)
(*   - ToolRegistry (core/tool_registry.py): register, remove_tool, clear; *)
(*   - PDFProcessor._chunk_text (tools/document_processing.py);            *)
(*   - the text functions of OllamaTool and ResponseFormatterTool, and the *)
(*     prompt generate_response builds, on texts held as sequences of      *)
(*     characters.                                                         *)
(* Each part has its own specification over the shared variables; the      *)
(* variables of the other parts stay at their initial values.              *)
(***************************************************************************)
EXTENDS Integers, Sequences, FiniteSets, TLC

(***************************************************************************)
(* Bounds and program constants                                            *)
(***************************************************************************)
\* ThreadPoolExecutor(max_workers=4)
max_workers == 4
\* number of execute_tool invocations explored when only the pool is followed
PoolCalls == 5
\* number of execute_tool invocations explored together with cleanup
MaxCalls == 3
\* the timeout a caller of execute_tool would like to be held to, in ticks
Timeout == 2
\* number of invocations explored when the clock of the callers runs
TimedCalls == 2

\* RateLimiter.window, in seconds
window == 60
\* largest requests_per_minute a RateLimiter is built with (the API's own is
\* built with the default, 60)
MaxLimit == 2
\* number of API requests in flight at once
MaxReqs == 2
\* number of times the clock advances
MaxTicks == 3

\* number of queries answered
MaxQueries == 2
\* VectorStoreTool.query(query, k=3)
top_k == 3

Calls == 1..PoolCalls
Queries == 1..MaxQueries
\* how many matches the vector store finds for a query
MatchCounts == {0, 1, top_k}
\* what the vector store does with a query: it raises, or finds matches
StoreOutcomes ==
    {[raises |-> TRUE, found |-> 0]} \cup
    {[raises |-> FALSE, found |-> c] : c \in MatchCounts}
\* the execute_tool calls of setup_mcp's initial indexing (main.py:66-78):
\* none when files_data is empty; the count alone when documents are
\* indexed already; then process_documents, and index_documents when it
\* returned documents
SetupInvocations ==
    {<<>>, <<"get_document_count">>,
     <<"get_document_count", "process_documents">>,
     <<"get_document_count", "process_documents", "index_documents">>}
\* the tools main.setup_mcp registers that the query pipeline calls
SetupTools == {"query_vector_store", "format_response", "generate_response"}
Reqs == 1..MaxReqs
\* the client ids rate_limiter.check is called with
Identities == {"key_a", "key_b"}
\* config.api_key, the only key get_api_key lets through
ApiKey == "key_a"
\* the clock advances by a second, by just under a window, or by a window
TickSteps == {1, 59, 60}

\* the names main.setup_mcp registers that the model follows: one plain
\* function (vector_tool.index_documents) and one coroutine function
\* (llm_tool.generate_response)
ToolNames == {"index_documents", "generate_response"}
\* the names callers pass to execute_tool
CallNames == ToolNames \cup {"nonexistent_tool"}

\* longest text handed to _chunk_text
MaxTextLen == 6
\* largest chunk_size and chunk_overlap a PDFProcessor is built with
MaxSize == 5
\* number of iterations of the loop of _chunk_text that are followed
MaxIters == 7
\* the characters of the texts that are chunked: a letter, the sentence end
\* and the line break that line 25 turns into a space
ChunkAlphabet == {"a", ".", "\n"}
ChunkTexts == UNION {[1..n -> ChunkAlphabet] : n \in 0..MaxTextLen}

\* longest conversation history that is ranked
MaxTurns == 3
\* the assistant texts of the turns that are ranked: "ab", "B", "a", "c a"
AssistantTexts == {<<"a", "b">>, <<"B">>, <<"a">>, <<"c", " ", "a">>}
\* the queries the history is ranked for: "a", "A b", "b  c", "c c", ""
HistoryQueries ==
    {<<"a">>, <<"A", " ", "b">>, <<"b", " ", " ", "c">>, <<"c", " ", "c">>, <<>>}
\* a turn of the conversation: {'user': ..., 'assistant': ...}
Turns == {[user |-> <<"q">>, assistant |-> t] : t \in AssistantTexts}
Histories == UNION {[1..n -> Turns] : n \in 0..MaxTurns}

\* longest text handed to _smart_truncate
MaxCut == 4
\* the texts that are truncated: letters and sentence ends
TruncTexts == UNION {[1..n -> {"a", "."}] : n \in 0..MaxCut}

\* sep.join(parts)
RECURSIVE Join(_, _)
Join(parts, sep) ==
    IF parts = <<>> THEN <<>>
    ELSE IF Len(parts) = 1 THEN parts[1]
    ELSE parts[1] \o sep \o Join(Tail(parts), sep)

\* longest of the short contents that are formatted
MaxDocLen == 3
\* the query and the content of the match of the visitor parking case
ParkingQuery ==
    <<"W", "h", "a", "t", " ", "a", "r", "e", " ", "v", "i", "s", "i", "t",
      "o", "r", " ", "p", "a", "r", "k", "i", "n", "g", " ", "h", "o", "u",
      "r", "s", "?">>
\* "Visitor parking is open from 6am to 10pm daily."
ParkingFirstSentence ==
    <<"V", "i", "s", "i", "t", "o", "r", " ", "p", "a", "r", "k", "i", "n",
      "g", " ", "i", "s", " ", "o", "p", "e", "n", " ", "f", "r", "o", "m",
      " ", "6", "a", "m", " ", "t", "o", " ", "1", "0", "p", "m", " ", "d",
      "a", "i", "l", "y", ".">>
\* the first sentence, then " Overnight parking requires a permit."
ParkingContent ==
    ParkingFirstSentence \o
    <<" ", "O", "v", "e", "r", "n", "i", "g", "h", "t", " ", "p", "a", "r",
      "k", "i", "n", "g", " ", "r", "e", "q", "u", "i", "r", "e", "s", " ",
      "a", " ", "p", "e", "r", "m", "i", "t", ".">>
\* largest number of pieces between sentence ends in a content
MaxSentences == 6
\* the contents that are formatted: the short texts, the parking one, and
\* the texts of up to MaxSentences pieces "B", "d" or "" with a '.' between
\* one piece and the next
DocTexts ==
    UNION {[1..n -> {"a", "B", ".", " "}] : n \in 0..MaxDocLen}
        \cup {ParkingContent}
        \cup {Join(pieces, <<".">>) :
                 pieces \in UNION {[1..n -> {<<"B">>, <<"d">>, <<>>}] :
                                      n \in 1..MaxSentences}}
\* the queries they are formatted for: "a", "b c", and the parking one
DocQueries == {<<"a">>, <<"b", " ", "c">>, ParkingQuery}
\* the `results` format is called with: no match, or matches by content
DocResults ==
    {<<>>} \cup {<<t>> : t \in DocTexts} \cup {<<<<"B", ".">>, <<"a">>>>}

\* generate_response, line 119
max_context_length == 2000
\* longest conversation a prompt is assembled from
MaxChat == 5
\* the conversations a prompt is assembled from: the first turns of one
\* conversation whose answers are "ab" and "B" in turn
PromptHistories ==
    {[i \in 1..n |->
         [user |-> <<"q">>,
          assistant |-> IF i % 2 = 1 THEN <<"a", "b">> ELSE <<"B">>]] :
     n \in 0..MaxChat}
\* the `results` a prompt is assembled from: no match, a short match, the
\* parking one, and matches of n letters around the limit of 2000 with a
\* sentence end in place of letter d (none when d is 0)
PromptResults ==
    {<<>>, <<<<"a", ".", "B">>>>, <<ParkingContent>>} \cup
    {<<[i \in 1..n |-> IF i = d THEN "." ELSE "a"]>> :
        n \in {1999, 2000, 2005}, d \in {0, 1500, 2000}}

\* class ToolCategory
ToolCategory == {"document", "search", "llm", "utility", "other"}
\* the categories tools are registered under, OTHER being the default
RegCategories == {"document", "search", "other"}
\* the names tools are registered under
RegNames == {"read_pdf", "web_search"}

\* a dict with no key
EmptyDict == [x \in {} |-> x]
\* execute_tool(name): no positional and no keyword argument
NoArguments == [args |-> <<>>, kwargs |-> EmptyDict]
\* number of execute_tool invocations explored with their arguments
ArgCalls == 2
\* the *args and **kwargs callers pass to execute_tool: nothing or the query,
\* with or without k=5
Arguments ==
    {[args |-> a, kwargs |-> k] :
        a \in {<<>>, <<"q">>}, k \in {EmptyDict, [x \in {"k"} |-> 5]}}

\* inspect.iscoroutinefunction(tool) of the callable held under a name
IsCoroutineFunction(n) == n = "generate_response"

VARIABLES
    tools,            \* MCPServer.tools: the registered names
    pc,               \* per invocation: where its execute_tool call is
    name,             \* per invocation: tool_name
    outcome,          \* per invocation: what the capability produced
    err,              \* per invocation: the exception execute_tool raised
    runs,             \* per invocation: how often the capability was started
    logged,           \* invocations whose error the except clause logged
    queue,            \* the executor's work queue (FIFO of invocations)
    executorShutdown, \* the executor's _shutdown flag
    cleanupPc,        \* where MCPServer.cleanup is: idle, waiting, done
    inflightAtDrain,  \* whether pool tasks were in flight when cleanup started
    waited,           \* per invocation: ticks its caller has been suspended
    passed,           \* per invocation: the *args and **kwargs of execute_tool
    received,         \* per invocation: what the capability was called with
    now,              \* time.time(), in seconds
    ticks,            \* how often the clock has advanced
    rate_limit,       \* RateLimiter.rate_limit
    requests,         \* RateLimiter.requests: client id -> timestamps
    rpc,              \* per API request: idle, or arrived and not yet checked
    rid,              \* per API request: the client id it is checked under
    admittedLog,      \* per client id: the times, less than a window ago,
                      \* at which a check of it returned True
    denied,           \* per client id: whether a check of it returned False:
                      \* never, now (since the clock last moved), earlier
    raced,            \* a check ran while another request of the same client
                      \* id was waiting for its own check
    mode,             \* args.mode: the interface in front of the pipeline
    files_data,       \* the directory files_data and the vector store on
                      \* disk: empty, or documents that are unindexed / indexed
    qpc,              \* per query: the step of the handler it is at
    results,          \* per query: how many matches `results` holds
    context,          \* per query: `context`: None, or the extracted section
    fault,            \* per query: the steps whose collaborator raised
    answer,           \* per query: what the handler gave its caller
    response,         \* per query: what generate_response got from the provider
    trace,            \* per query: the steps of the pipeline completed so far
    invoked,          \* per query: the execute_tool calls made for it, by
                      \* name, and "check" for its rate_limiter.check
    conversation_history, \* OllamaTool.conversation_history
    _tools,           \* ToolRegistry._tools: name -> Tool
    _categories,      \* ToolRegistry._categories: category -> name -> Tool
    removed,          \* what the last remove_tool returned (None before any)
    latest,           \* per name: the category of its latest registration
    chunk_size,       \* PDFProcessor.chunk_size
    chunk_overlap,    \* PDFProcessor.chunk_overlap
    cpc,              \* where _chunk_text is: unbuilt, built, loop, returned
    text,             \* _chunk_text: `text` after line 25
    start,            \* _chunk_text: `start`
    chunks,           \* _chunk_text: `chunks`
    spans,            \* the positions [from, to) of the text each chunk was cut from
    iterations,       \* how often the body of the while loop has run
    query,            \* the query a text function was called with
    max_items,        \* _get_relevant_history: max_items
    relevant,         \* what the calls of _get_relevant_history returned
    max_length,       \* _smart_truncate: max_length
    given,            \* _smart_truncate: the text it was first called with
    contents,         \* format: the content of each match in `results`
    truncated,        \* what _smart_truncate returned, applied once and twice
    section,          \* what ResponseFormatterTool.format returned
    fitted,           \* generate_response: `context` after line 121
    full_prompt       \* generate_response: what _build_context returned

dispatchVars == <<tools, pc, name, outcome, err, runs, logged, queue,
                  executorShutdown, cleanupPc, inflightAtDrain, waited,
                  passed, received>>
rateVars == <<now, ticks, rate_limit, requests, rpc, rid, admittedLog,
              denied, raced>>

pipeVars == <<mode, files_data, qpc, results, context, fault, answer,
              response, trace, invoked, conversation_history>>
registryVars == <<_tools, _categories, removed, latest>>
chunkVars == <<chunk_size, chunk_overlap, cpc, text, start, chunks, spans,
               iterations>>
textVars == <<query, max_items, relevant, max_length, given, contents,
              truncated, section, fitted, full_prompt>>

\* what the actions of one part leave alone
libVars == <<registryVars, chunkVars, textVars>>
nonDispatchVars == <<rateVars, pipeVars, libVars>>
nonRateVars == <<dispatchVars, pipeVars, libVars>>
nonPipeVars == <<dispatchVars, rateVars, libVars>>

vars == <<dispatchVars, rateVars, pipeVars, libVars>>

(***************************************************************************)
(* MCPServer                                                               *)
(***************************************************************************)
Running == {i \in Calls : pc[i] = "running"}
Queued == {i \in Calls : pc[i] = "queued"}
\* the caller of execute_tool has not got control back
Pending(i) == pc[i] \in {"coro", "queued", "running", "done"}
Terminal(i) == pc[i] \in {"returned", "raised"}

LoopHeldByWorker == cleanupPc # "waiting" /\ Running = {}
\* cleanup calls the blocking executor.shutdown(wait=True) on the event loop
\* thread: while it waits no coroutine of that loop runs; a capability that
\* runs on a worker thread (run_in_executor) leaves the loop to the others
LoopFree == cleanupPc # "waiting"

InitDispatch ==
    /\ tools = {}
    /\ pc = [i \in Calls |-> "idle"]
    /\ name = [i \in Calls |-> "nonexistent_tool"]
    /\ outcome = [i \in Calls |-> "pending"]
    /\ err = [i \in Calls |-> "none"]
    /\ runs = [i \in Calls |-> 0]
    /\ logged = {}
    /\ queue = <<>>
    /\ executorShutdown = FALSE
    /\ cleanupPc = "idle"
    /\ inflightAtDrain = FALSE
    /\ waited = [i \in Calls |-> 0]
    /\ passed = [i \in Calls |-> NoArguments]
    /\ received = [i \in Calls |-> NoArguments]

\* register_tool; main.setup_mcp registers every tool before the first
\* execute_tool call
RegisterTool(n) ==
    /\ LoopFree
    /\ \A i \in Calls : pc[i] = "idle"
    /\ n \notin tools
    /\ tools' = tools \cup {n}
    /\ UNCHANGED <<pc, name, outcome, err, runs, logged, queue,
                   executorShutdown, cleanupPc, inflightAtDrain, waited>>
    /\ UNCHANGED <<passed, received>>
    /\ UNCHANGED nonDispatchVars

\* `if tool_name not in self.tools` (negated)
RegisteredAlways(n) == TRUE
Registered(n) == n \in tools

\* the except clause of execute_tool: log, then re-raise
OnErrorSwallow(i, e) ==
    /\ logged' = logged \cup {i}
    /\ pc' = [pc EXCEPT ![i] = "returned"]
    /\ err' = err
OnError(i, e) ==
    /\ logged' = logged \cup {i}
    /\ pc' = [pc EXCEPT ![i] = "raised"]
    /\ err' = [err EXCEPT ![i] = e]

\* Executor.submit: refused with RuntimeError once shutdown was called
SubmitAccepted == ~executorShutdown

\* execute_tool(tool_name, *args, **kwargs) up to its first suspension point
execute_tool(i, n, a) ==
    /\ LoopFree
    /\ pc[i] = "idle"
    /\ \A j \in Calls : j < i => pc[j] # "idle"
    /\ name' = [name EXCEPT ![i] = n]
    /\ passed' = [passed EXCEPT ![i] = a]
    /\ IF ~Registered(n)
       THEN \* raise ValueError, before the try block: not logged
            /\ pc' = [pc EXCEPT ![i] = "raised"]
            /\ err' = [err EXCEPT ![i] = "notfound"]
            /\ UNCHANGED <<runs, logged, queue, received>>
       ELSE IF IsCoroutineFunction(n)
       THEN \* await tool(*args, **kwargs): the coroutine runs on the loop
            /\ pc' = [pc EXCEPT ![i] = "coro"]
            /\ runs' = [runs EXCEPT ![i] = @ + 1]
            /\ received' = [received EXCEPT ![i] = a]
            /\ UNCHANGED <<err, logged, queue>>
       ELSE IF SubmitAccepted
       THEN \* run_in_executor(self.executor, tool, *args)
            /\ pc' = [pc EXCEPT ![i] = "queued"]
            /\ queue' = Append(queue, i)
            /\ UNCHANGED <<err, runs, logged, received>>
       ELSE \* submit raises inside the try block
            /\ OnError(i, "shutdown")
            /\ UNCHANGED <<runs, queue, received>>
    /\ UNCHANGED <<tools, outcome, executorShutdown, cleanupPc,
                   inflightAtDrain, waited>>
    /\ UNCHANGED nonDispatchVars

\* execute_tool(tool_name)
Invoke(i, n) == execute_tool(i, n, NoArguments)

\* the awaited coroutine capability returns or raises
CoroFinish(i, ok) ==
    /\ LoopFree
    /\ pc[i] = "coro"
    /\ outcome' = [outcome EXCEPT ![i] = IF ok THEN "result" ELSE "exception"]
    /\ IF ok
       THEN /\ pc' = [pc EXCEPT ![i] = "returned"]
            /\ UNCHANGED <<err, logged>>
       ELSE OnError(i, "capability")
    /\ UNCHANGED <<tools, name, runs, queue, executorShutdown, cleanupPc,
                   inflightAtDrain, waited>>
    /\ UNCHANGED <<passed, received>>
    /\ UNCHANGED nonDispatchVars

\* a worker thread is there for the next work item
WorkerFreeAlways == TRUE
WorkerFree == Cardinality(Running) < max_workers

\* a worker thread of the pool takes the head of the work queue
WorkerStart(i) ==
    /\ queue # <<>>
    /\ i = Head(queue)
    /\ WorkerFree
    /\ queue' = Tail(queue)
    /\ pc' = [pc EXCEPT ![i] = "running"]
    /\ runs' = [runs EXCEPT ![i] = @ + 1]
    \* the work item run_in_executor made holds tool and *args: the worker
    \* calls tool(*args)
    /\ received' = [received EXCEPT ![i] =
                       [args |-> passed[i].args, kwargs |-> EmptyDict]]
    /\ UNCHANGED <<tools, name, outcome, err, logged, executorShutdown,
                   cleanupPc, inflightAtDrain, waited, passed>>
    /\ UNCHANGED nonDispatchVars

\* the blocking capability returns or raises on its worker thread; the
\* future is completed
WorkerFinish(i, ok) ==
    /\ pc[i] = "running"
    /\ pc' = [pc EXCEPT ![i] = "done"]
    /\ outcome' = [outcome EXCEPT ![i] = IF ok THEN "result" ELSE "exception"]
    /\ UNCHANGED <<tools, name, err, runs, logged, queue, executorShutdown,
                   cleanupPc, inflightAtDrain, waited>>
    /\ UNCHANGED <<passed, received>>
    /\ UNCHANGED nonDispatchVars

\* the event loop resumes the caller suspended on the future
CallerResume(i) ==
    /\ LoopFree
    /\ pc[i] = "done"
    /\ IF outcome[i] = "result"
       THEN /\ pc' = [pc EXCEPT ![i] = "returned"]
            /\ UNCHANGED <<err, logged>>
       ELSE OnError(i, "capability")
    /\ UNCHANGED <<tools, name, outcome, runs, queue, executorShutdown,
                   cleanupPc, inflightAtDrain, waited>>
    /\ UNCHANGED <<passed, received>>
    /\ UNCHANGED nonDispatchVars

\* cleanup: executor.shutdown sets the flag, then joins the workers
CleanupStart ==
    /\ cleanupPc = "idle"
    /\ \E i \in Calls : pc[i] # "idle"
    /\ cleanupPc' = "waiting"
    /\ executorShutdown' = TRUE
    /\ inflightAtDrain' = (Queued \cup Running # {})
    /\ UNCHANGED <<tools, pc, name, outcome, err, runs, logged, queue, waited>>
    /\ UNCHANGED <<passed, received>>
    /\ UNCHANGED nonDispatchVars

\* shutdown(wait=True): the workers exit once the queue is drained
PoolIdleNoWait == TRUE
PoolIdle == queue = <<>> /\ Running = {}

CleanupReturn ==
    /\ cleanupPc = "waiting"
    /\ PoolIdle
    /\ cleanupPc' = "done"
    /\ UNCHANGED <<tools, pc, name, outcome, err, runs, logged, queue,
                   executorShutdown, inflightAtDrain, waited>>
    /\ UNCHANGED <<passed, received>>
    /\ UNCHANGED nonDispatchVars

\* time passes for the suspended callers; execute_tool takes no timeout and
\* sets no timer, so nothing else happens
Tick ==
    /\ \E i \in Calls : Pending(i) /\ waited[i] <= Timeout
    /\ waited' = [i \in Calls |->
                    IF Pending(i) /\ waited[i] <= Timeout
                    THEN waited[i] + 1 ELSE waited[i]]
    /\ UNCHANGED <<tools, pc, name, outcome, err, runs, logged, queue,
                   executorShutdown, cleanupPc, inflightAtDrain>>
    /\ UNCHANGED <<passed, received>>
    /\ UNCHANGED nonDispatchVars

(***************************************************************************)
(* The query pipeline as constructed                                       *)
(***************************************************************************)
NoAnswer == [kind |-> "none", response |-> "none", matches |-> 0]

\* the handlers' state before any query, under interface m and with the
\* documents on disk in state files
Handlers(m, files) ==
    /\ mode = m
    /\ files_data = files
    /\ qpc = [p \in Queries |-> "idle"]
    /\ results = [p \in Queries |-> 0]
    /\ context = [p \in Queries |-> "None"]
    /\ fault = [p \in Queries |-> {}]
    /\ answer = [p \in Queries |-> NoAnswer]
    /\ response = [p \in Queries |-> "none"]
    /\ trace = [p \in Queries |-> <<>>]
    /\ invoked = [p \in Queries |-> <<>>]

\* main: --mode is cli or api; the API is followed here with no document
\* in files_data
InitPipe ==
    /\ Handlers("cli", "indexed") \/ Handlers("api", "empty")
    /\ conversation_history = <<>>

\* no query is made: the handlers' state stays as constructed
IdleHandlers == Handlers("cli", "indexed")

IdlePipe ==
    /\ IdleHandlers
    /\ conversation_history = <<>>

(***************************************************************************)
(* ToolRegistry, PDFProcessor and the text functions as constructed        *)
(***************************************************************************)
\* what `removed` holds before remove_tool was called
NotCalled == [name |-> "None", ret |-> FALSE]

\* ToolRegistry.__init__
InitRegistry ==
    /\ _tools = EmptyDict
    /\ _categories = [c \in ToolCategory |-> EmptyDict]
    /\ removed = NotCalled
    /\ latest = [n \in RegNames |-> "none"]

\* no PDFProcessor is built yet; the sizes shown are __init__'s defaults
InitChunk ==
    /\ chunk_size = 1000
    /\ chunk_overlap = 200
    /\ cpc = "unbuilt"
    /\ text = <<>>
    /\ start = 0
    /\ chunks = <<>>
    /\ spans = <<>>
    /\ iterations = 0

\* `section` before format was called
Unset == [kind |-> "unset", text |-> <<>>]

\* no text function is called
IdleText ==
    /\ query = <<>>
    /\ max_items = 3
    /\ relevant = <<>>
    /\ max_length = 2000
    /\ given = <<>>
    /\ contents = <<>>
    /\ truncated = <<>>
    /\ section = Unset
    /\ fitted = Unset
    /\ full_prompt = <<>>

IdleLib == InitRegistry /\ InitChunk /\ IdleText

(***************************************************************************)
(* RateLimiter                                                             *)
(***************************************************************************)
InitRate ==
    /\ now = 0
    /\ ticks = 0
    /\ rate_limit \in 0..MaxLimit
    /\ requests = [id \in Identities |-> <<>>]
    /\ rpc = [r \in Reqs |-> "idle"]
    /\ rid = [r \in Reqs |-> "key_a"]
    /\ admittedLog = [id \in Identities |-> <<>>]
    /\ denied = [id \in Identities |-> "never"]
    /\ raced = FALSE

\* the rate limiter is not used: its state stays as constructed
IdleRate ==
    /\ now = 0
    /\ ticks = 0
    /\ rate_limit = MaxLimit
    /\ requests = [id \in Identities |-> <<>>]
    /\ rpc = [r \in Reqs |-> "idle"]
    /\ rid = [r \in Reqs |-> "key_a"]
    /\ admittedLog = [id \in Identities |-> <<>>]
    /\ denied = [id \in Identities |-> "never"]
    /\ raced = FALSE

\* [t for t in client_requests if now - t < self.window]
PruneInclusive(client_requests, t_now) ==
    SelectSeq(client_requests, LAMBDA t : t_now - t <= window)
Prune(client_requests, t_now) ==
    SelectSeq(client_requests, LAMBDA t : t_now - t < window)

\* client_requests.append(now), the list then stored under the client id
RecordedAlone(client_requests, t_now) == <<t_now>>
Recorded(client_requests, t_now) == Append(client_requests, t_now)

\* `if len(client_requests) >= self.rate_limit: return False`
DeniedOffByOne(client_requests) == Len(client_requests) > rate_limit
Denied(client_requests) == Len(client_requests) >= rate_limit

\* RateLimiter.check(client_id): it has no await in its body, so on the
\* event loop it runs from its first line to its return in one step
check(id) ==
    LET client_requests == Prune(requests[id], now)
    IN  IF Denied(client_requests)
        THEN \* return False
             /\ denied' = [denied EXCEPT ![id] = "now"]
             /\ UNCHANGED <<requests, admittedLog>>
        ELSE \* return True
             /\ requests' = [requests EXCEPT
                               ![id] = Recorded(client_requests, now)]
             /\ admittedLog' = [admittedLog EXCEPT ![id] = Append(@, now)]
             /\ UNCHANGED denied

\* check is called for a client id
CheckNow(id) ==
    /\ check(id)
    /\ UNCHANGED <<now, ticks, rate_limit, rpc, rid, raced>>
    /\ UNCHANGED nonRateVars

\* a request reaches query_agent: its dependencies are resolved (they await
\* setup_mcp), get_api_key has let it through with the configured key
Arrive(r, id) ==
    /\ rpc[r] = "idle"
    /\ \A q \in Reqs : q < r => rpc[q] # "idle"
    /\ rpc' = [rpc EXCEPT ![r] = "arrived"]
    /\ rid' = [rid EXCEPT ![r] = id]
    /\ UNCHANGED <<now, ticks, rate_limit, requests, admittedLog, denied, raced>>
    /\ UNCHANGED nonRateVars

\* `await rate_limiter.check(api_key)` of query_agent; the request is then
\* answered: 429 when denied, the pipeline's answer otherwise
Check(r) ==
    /\ rpc[r] = "arrived"
    /\ rpc' = [rpc EXCEPT ![r] = "idle"]
    /\ raced' = (raced \/ \E q \in Reqs \ {r} :
                             rpc[q] = "arrived" /\ rid[q] = rid[r])
    /\ check(rid[r])
    /\ UNCHANGED <<now, ticks, rate_limit, rid>>
    /\ UNCHANGED nonRateVars

\* time passes; the admitted times that are a window old leave the log
TickClock(d) ==
    /\ ticks < MaxTicks
    /\ ticks' = ticks + 1
    /\ now' = now + d
    /\ admittedLog' = [id \in Identities |->
                         SelectSeq(admittedLog[id], LAMBDA t : now + d - t < window)]
    /\ denied' = [id \in Identities |->
                    IF denied[id] = "now" THEN "earlier" ELSE denied[id]]
    /\ UNCHANGED <<rate_limit, requests, rpc, rid, raced>>
    /\ UNCHANGED nonRateVars

\* the limiter called for several client ids as time passes
NextRate ==
    \/ \E id \in Identities : CheckNow(id)
    \/ \E d \in TickSteps : TickClock(d)

InitRateOnly == InitDispatch /\ InitRate /\ IdlePipe /\ IdleLib
SpecRate == InitRateOnly /\ [][NextRate]_vars

\* the limiter behind the API: requests in flight together, all under the
\* configured key
NextRateApi ==
    \/ \E r \in Reqs : Arrive(r, ApiKey)
    \/ \E r \in Reqs : Check(r)
    \/ \E d \in TickSteps : TickClock(d)

SpecRateApi == InitRateOnly /\ [][NextRateApi]_vars

(***************************************************************************)
(* The query pipeline: CLIInterface._process_query and the API query_agent *)
(***************************************************************************)
\* VectorStoreTool.query: the matches found; [] when the embedding model or
\* the collection raises (the exception is logged and swallowed)
VectorQuery(store) == IF store.raises THEN 0 ELSE store.found

\* ResponseFormatterTool.format: the extracted section; None when cleaning
\* or extracting raises (logged and swallowed)
FormatResponse(extraction) == IF extraction = "raise" THEN "None" ELSE "section"

\* OllamaTool.generate_response: the provider's text; when anything in it
\* raises, the text "I encountered an error processing your request: <e>"
GenerateResponse(provider) == IF provider = "raise" THEN "errtext" ELSE "llm"

\* execute_tool raises for a name setup_mcp has not registered; the three
\* capabilities of the pipeline are coroutine functions that catch every
\* Exception themselves, so their awaits do not raise
ExecuteToolRaises(n) == n \notin SetupTools

\* the except clause of the handler: the CLI returns the apology with no
\* matches, the API raises HTTPException(500, detail=str(e))
HandlerExcept(p) ==
    /\ qpc' = [qpc EXCEPT ![p] = "done"]
    /\ answer' = [answer EXCEPT ![p] =
           IF mode = "cli"
           THEN [kind |-> "return", response |-> "apology", matches |-> 0]
           ELSE [kind |-> "http500", response |-> "detail", matches |-> 0]]

\* a query reaches its handler; the CLI loop awaits one query at a time, the
\* API serves its requests together
StartQuery(p) ==
    /\ qpc[p] = "idle"
    /\ \A q \in Queries : q < p => qpc[q] # "idle"
    /\ mode = "cli" => \A q \in Queries : qpc[q] \in {"idle", "done"}
    /\ qpc' = [qpc EXCEPT ![p] = IF mode = "api" THEN "setup" ELSE "retrieve"]
    /\ UNCHANGED <<mode, files_data, results, context, fault, answer, response,
                   trace, invoked, conversation_history>>
    /\ UNCHANGED nonPipeVars

\* query_agent's dependency get_mcp (api.py:28-31, 88), resolved before the
\* body of the handler runs: setup_mcp builds an MCPServer and its tools for
\* the request and runs the initial indexing through execute_tool
SetupMcp(p, indexing) ==
    /\ qpc[p] = "setup"
    /\ Len(indexing) = 0 <=> files_data = "empty"
    /\ Len(indexing) = 1 <=> files_data = "indexed"
    /\ invoked' = [invoked EXCEPT ![p] = @ \o indexing]
    \* index_documents returns False and stores nothing when adding fails
    /\ files_data' \in IF Len(indexing) = 3 THEN {"unindexed", "indexed"}
                        ELSE {files_data}
    /\ qpc' = [qpc EXCEPT ![p] = "admission"]
    /\ UNCHANGED <<mode, results, context, fault, answer, response, trace,
                   conversation_history>>
    /\ UNCHANGED nonPipeVars

\* query_agent: `if not await rate_limiter.check(api_key)`: 429 when denied
Admission(p) ==
    /\ qpc[p] = "admission"
    /\ check(ApiKey)
    /\ IF Denied(Prune(requests[ApiKey], now))
       THEN /\ qpc' = [qpc EXCEPT ![p] = "done"]
            /\ answer' = [answer EXCEPT ![p] =
                   [kind |-> "http429", response |-> "detail", matches |-> 0]]
       ELSE /\ qpc' = [qpc EXCEPT ![p] = "retrieve"]
            /\ UNCHANGED answer
    /\ invoked' = [invoked EXCEPT ![p] = Append(@, "check")]
    /\ UNCHANGED <<mode, files_data, results, context, fault, response, trace,
                   conversation_history>>
    /\ UNCHANGED <<now, ticks, rate_limit, rpc, rid, raced>>
    /\ UNCHANGED <<dispatchVars, libVars>>

TruthyAlways(n) == TRUE
\* `if results:` is taken for a list that is not empty
Truthy(n) == n > 0

\* results = await execute_tool("query_vector_store", query)
Retrieve(p, store) ==
    /\ qpc[p] = "retrieve"
    /\ IF ExecuteToolRaises("query_vector_store")
       THEN HandlerExcept(p) /\ UNCHANGED <<results, fault, trace, invoked>>
       ELSE /\ results' = [results EXCEPT ![p] = VectorQuery(store)]
            /\ invoked' = [invoked EXCEPT ![p] =
                              Append(@, "query_vector_store")]
            /\ fault' = [fault EXCEPT ![p] =
                   IF store.raises THEN @ \cup {"retrieve"} ELSE @]
            /\ trace' = [trace EXCEPT ![p] = Append(@, "retrieve")]
            \* `if results:` decides whether format_response is called
            /\ qpc' = [qpc EXCEPT ![p] =
                   IF Truthy(VectorQuery(store)) THEN "format" ELSE "truncate"]
            /\ UNCHANGED answer
    /\ UNCHANGED <<mode, files_data, context, response, conversation_history>>
    /\ UNCHANGED nonPipeVars

\* context = await execute_tool("format_response", query, results)
Format(p, extraction) ==
    /\ qpc[p] = "format"
    /\ IF ExecuteToolRaises("format_response")
       THEN HandlerExcept(p) /\ UNCHANGED <<context, fault, trace, invoked>>
       ELSE /\ context' = [context EXCEPT ![p] = FormatResponse(extraction)]
            /\ invoked' = [invoked EXCEPT ![p] = Append(@, "format_response")]
            /\ fault' = [fault EXCEPT ![p] =
                   IF extraction = "raise" THEN @ \cup {"format"} ELSE @]
            /\ trace' = [trace EXCEPT ![p] = Append(@, "extract")]
            /\ qpc' = [qpc EXCEPT ![p] = "truncate"]
            /\ UNCHANGED answer
    /\ UNCHANGED <<mode, files_data, results, response, conversation_history>>
    /\ UNCHANGED nonPipeVars

\* response = await execute_tool("generate_response", query, context):
\* generate_response starts with the truncation of the context, lines 119-121
Truncate(p) ==
    /\ qpc[p] = "truncate"
    /\ IF ExecuteToolRaises("generate_response")
       THEN HandlerExcept(p) /\ UNCHANGED <<trace, invoked>>
       ELSE /\ trace' = [trace EXCEPT ![p] = Append(@, "truncate")]
            /\ invoked' = [invoked EXCEPT ![p] = Append(@, "generate_response")]
            /\ qpc' = [qpc EXCEPT ![p] = "assemble"]
            /\ UNCHANGED answer
    /\ UNCHANGED <<mode, files_data, results, context, fault, response,
                   conversation_history>>
    /\ UNCHANGED nonPipeVars

\* generate_response, lines 124-130: the history is ranked and the prompt is
\* put together
Assemble(p) ==
    /\ qpc[p] = "assemble"
    /\ trace' = [trace EXCEPT ![p] = Append(@, "assemble")]
    /\ qpc' = [qpc EXCEPT ![p] = "generate"]
    /\ UNCHANGED <<mode, files_data, results, context, fault, answer, response,
                   invoked, conversation_history>>
    /\ UNCHANGED nonPipeVars

\* generate_response, lines 132-141: the provider answers or raises; when it
\* raises, lines 151-153 return the error text and the handler returns it
Generate(p, provider) ==
    /\ qpc[p] = "generate"
    /\ response' = [response EXCEPT ![p] = GenerateResponse(provider)]
    /\ IF provider = "raise"
       THEN /\ fault' = [fault EXCEPT ![p] = @ \cup {"generate"}]
            /\ qpc' = [qpc EXCEPT ![p] = "done"]
            /\ answer' = [answer EXCEPT ![p] =
                   [kind |-> "return",
                    response |-> GenerateResponse(provider),
                    matches |-> results[p]]]
            /\ UNCHANGED trace
       ELSE /\ trace' = [trace EXCEPT ![p] = Append(@, "generate")]
            /\ qpc' = [qpc EXCEPT ![p] = "record"]
            /\ UNCHANGED <<fault, answer>>
    /\ UNCHANGED <<mode, files_data, results, context, invoked,
                   conversation_history>>
    /\ UNCHANGED nonPipeVars

StoredAlone(history, turn) == <<turn>>
\* line 144: self.conversation_history.append(...), one list operation with
\* no suspension point between the provider's return and the append
Stored(history, turn) == Append(history, turn)

\* generate_response, lines 144-149: the turn is appended and the response
\* returned; the handler returns (response, results, False) or the
\* QueryResponse. The CLI's OllamaTool lives as long as the CLI; the API
\* builds its tools anew for every request (get_mcp), so the turn an API
\* request records is dropped with its tool.
Record(p) ==
    /\ qpc[p] = "record"
    /\ conversation_history' =
           IF mode = "api"
           THEN conversation_history
           ELSE Stored(conversation_history,
                       [user |-> p, assistant |-> response[p]])
    /\ trace' = [trace EXCEPT ![p] = Append(@, "record")]
    /\ qpc' = [qpc EXCEPT ![p] = "done"]
    /\ answer' = [answer EXCEPT ![p] =
           [kind |-> "return", response |-> response[p],
            matches |-> results[p]]]
    /\ UNCHANGED <<mode, files_data, results, context, fault, response, invoked>>
    /\ UNCHANGED nonPipeVars

NextPipe ==
    \/ \E p \in Queries : StartQuery(p)
    \/ \E p \in Queries, indexing \in SetupInvocations : SetupMcp(p, indexing)
    \/ \E p \in Queries : Admission(p)
    \/ \E p \in Queries, store \in StoreOutcomes : Retrieve(p, store)
    \/ \E p \in Queries, extraction \in {"ok", "raise"} : Format(p, extraction)
    \/ \E p \in Queries : Truncate(p)
    \/ \E p \in Queries : Assemble(p)
    \/ \E p \in Queries, provider \in {"ok", "raise"} : Generate(p, provider)
    \/ \E p \in Queries : Record(p)

InitPipeOnly == InitDispatch /\ InitRate /\ InitPipe /\ IdleLib
SpecPipe == InitPipeOnly /\ [][NextPipe]_vars

\* the API with files_data empty, or holding documents that are or are not
\* in the vector store yet
InitAdmissionOnly ==
    /\ InitDispatch /\ InitRate /\ IdleLib
    /\ \E files \in {"empty", "unindexed", "indexed"} : Handlers("api", files)
    /\ conversation_history = <<>>
SpecAdmission == InitAdmissionOnly /\ [][NextPipe]_vars

\* one OllamaTool called by several callers at once, as a host does that
\* awaits its queries together (asyncio.gather) on the tools of one setup_mcp
NextShared ==
    \/ \E p \in Queries : StartQuery(p)
    \/ \E p \in Queries, store \in StoreOutcomes : Retrieve(p, store)
    \/ \E p \in Queries, extraction \in {"ok", "raise"} : Format(p, extraction)
    \/ \E p \in Queries : Truncate(p)
    \/ \E p \in Queries : Assemble(p)
    \/ \E p \in Queries, provider \in {"ok", "raise"} : Generate(p, provider)
    \/ \E p \in Queries : Record(p)

InitSharedOnly ==
    InitDispatch /\ IdleRate /\ Handlers("gather", "indexed")
        /\ conversation_history = <<>> /\ IdleLib
SpecShared == InitSharedOnly /\ [][NextShared]_vars

(***************************************************************************)
(* Specifications of the dispatcher                                        *)
(***************************************************************************)
NextDispatch ==
    \/ \E n \in ToolNames : RegisterTool(n)
    \/ \E i \in 1..MaxCalls, n \in CallNames : Invoke(i, n)
    \/ \E i \in Calls, ok \in BOOLEAN : CoroFinish(i, ok)
    \/ \E i \in Calls : WorkerStart(i)
    \/ \E i \in Calls, ok \in BOOLEAN : WorkerFinish(i, ok)
    \/ \E i \in Calls : CallerResume(i)
    \/ CleanupStart
    \/ CleanupReturn

InitDispatchOnly == InitDispatch /\ IdleRate /\ IdlePipe /\ IdleLib
SpecDispatch == InitDispatchOnly /\ [][NextDispatch]_vars

NextTimeout ==
    \/ \E n \in ToolNames : RegisterTool(n)
    \/ \E i \in 1..TimedCalls, n \in CallNames : Invoke(i, n)
    \/ \E i \in Calls, ok \in BOOLEAN : CoroFinish(i, ok)
    \/ \E i \in Calls : WorkerStart(i)
    \/ \E i \in Calls, ok \in BOOLEAN : WorkerFinish(i, ok)
    \/ \E i \in Calls : CallerResume(i)
    \/ Tick

SpecTimeout == InitDispatchOnly /\ [][NextTimeout]_vars

\* the dispatcher with more invocations than workers, cleanup left out
NextPool ==
    \/ \E n \in ToolNames : RegisterTool(n)
    \/ \E i \in Calls, n \in CallNames : Invoke(i, n)
    \/ \E i \in Calls, ok \in BOOLEAN : CoroFinish(i, ok)
    \/ \E i \in Calls : WorkerStart(i)
    \/ \E i \in Calls, ok \in BOOLEAN : WorkerFinish(i, ok)
    \/ \E i \in Calls : CallerResume(i)

SpecPool == InitDispatchOnly /\ [][NextPool]_vars

\* the dispatcher with the arguments of its invocations followed
NextArgs ==
    \/ \E n \in ToolNames : RegisterTool(n)
    \/ \E i \in 1..ArgCalls, n \in CallNames, a \in Arguments :
          execute_tool(i, n, a)
    \/ \E i \in Calls, ok \in BOOLEAN : CoroFinish(i, ok)
    \/ \E i \in Calls : WorkerStart(i)
    \/ \E i \in Calls, ok \in BOOLEAN : WorkerFinish(i, ok)
    \/ \E i \in Calls : CallerResume(i)

SpecArgs == InitDispatchOnly /\ [][NextArgs]_vars

(***************************************************************************)
(* Claims about MCPServer                                                  *)
(***************************************************************************)
\* C1: execute_tool with a name that is not registered raises the not-found
\* error and does nothing else: no capability is started, nothing enters the
\* executor's queue, nothing is logged, the registered tools and every other
\* invocation stay as they were.
C1_UnknownToolNoSideEffects ==
    /\ [](\A i \in Calls : err[i] = "notfound" =>
              pc[i] = "raised" /\ runs[i] = 0 /\ outcome[i] = "pending")
    /\ [][\A i \in Calls, n \in CallNames :
            (Invoke(i, n) /\ n \notin tools) =>
                /\ pc'[i] = "raised"
                /\ err'[i] = "notfound"
                /\ tools' = tools
                /\ queue' = queue
                /\ runs' = runs
                /\ logged' = logged
                /\ \A j \in Calls \ {i} : pc'[j] = pc[j]]_vars

C1_Witness ==
    \E i, j \in Calls :
        /\ err[i] = "notfound" /\ name[i] = "nonexistent_tool"
        /\ tools = ToolNames
        /\ pc[j] = "running"

\* C2: when the capability of an invocation raised (on the loop or on a
\* worker), execute_tool raises that error to its caller and logs it; the
\* invocation never returns normally, the capability was started exactly
\* once, and an invocation that has raised stays raised.
C2_ErrorReraisedOnce ==
    /\ [](\A i \in Calls : outcome[i] = "exception" =>
              /\ runs[i] = 1
              /\ pc[i] \in {"done", "raised"}
              /\ pc[i] = "raised" => (err[i] = "capability" /\ i \in logged))
    /\ [][\A i \in Calls : pc[i] = "raised" =>
              (pc'[i] = "raised" /\ runs'[i] = runs[i] /\ err'[i] = err[i])]_vars

C2_Witness ==
    \E i, j \in Calls :
        /\ outcome[i] = "exception" /\ pc[i] = "raised"
        /\ IsCoroutineFunction(name[i])
        /\ outcome[j] = "exception" /\ pc[j] = "raised"
        /\ ~IsCoroutineFunction(name[j])

\* C3: at most max_workers (4) blocking capabilities run at the same time,
\* the other submitted ones wait in the executor's queue, and an invocation
\* of a coroutine capability is never queued for or run on a worker.
C3_AtMostFourWorkers ==
    /\ Cardinality(Running) <= max_workers
    /\ \A i \in Calls :
          (pc[i] # "idle" /\ IsCoroutineFunction(name[i])) =>
              /\ pc[i] \notin {"queued", "running", "done"}
              /\ \A k \in 1..Len(queue) : queue[k] # i
    /\ \A i \in Calls : pc[i] = "queued" <=> \E k \in 1..Len(queue) : queue[k] = i

C3_Witness ==
    /\ Cardinality(Running) = max_workers
    /\ queue # <<>>

\* C4: once cleanup has called shutdown no invocation enters the executor's
\* queue any more; cleanup returns only when no pool task is queued or
\* running; and after it has returned none is queued or running.
C4_DrainWaits ==
    /\ [](cleanupPc = "done" => (queue = <<>> /\ Queued = {} /\ Running = {}))
    /\ [][executorShutdown =>
            \A i \in Calls : pc'[i] = "queued" => pc[i] = "queued"]_vars
    /\ [][(cleanupPc = "waiting" /\ cleanupPc' = "done") =>
            (queue = <<>> /\ Running = {})]_vars

C4_Witness ==
    /\ cleanupPc = "done"
    /\ inflightAtDrain
    /\ \E i \in Calls : err[i] = "shutdown"

\* C5: the caller of execute_tool has control back no later than its
\* timeout, also when the capability never completes.
C5_CallerBackByTimeout ==
    \A i \in Calls : Pending(i) => waited[i] <= Timeout

(***************************************************************************)
(* Claims about RateLimiter                                                *)
(***************************************************************************)
\* the stored timestamps of a client id that are less than a window old
InWindow(id) == SelectSeq(requests[id], LAMBDA t : now - t < window)

\* C8: a client id never has more than rate_limit timestamps stored, and at
\* no time more than rate_limit of its checks were admitted less than a
\* window ago (so no interval shorter than the window holds more than
\* rate_limit admitted checks); a check of a client id with fewer than
\* rate_limit admissions in the trailing window is admitted. With
\* rate_limit = 2, of three checks within a second the first two are
\* admitted and the third is denied.
C8_WindowNeverOverLimit ==
    /\ [](\A id \in Identities :
              /\ Len(requests[id]) <= rate_limit
              /\ Len(admittedLog[id]) <= rate_limit)
    /\ [][\A id \in Identities :
            (CheckNow(id) /\ Len(admittedLog[id]) < rate_limit) =>
                admittedLog'[id] = Append(admittedLog[id], now)]_vars

C8_Witness ==
    /\ rate_limit = 2
    /\ \E id \in Identities :
          /\ Len(admittedLog[id]) = 2
          /\ now - admittedLog[id][1] <= 1
          /\ admittedLog[id][1] < admittedLog[id][2]
          /\ denied[id] = "now"

\* C9: with rate_limit >= 1, a check of a client id whose stored timestamps
\* are all at least a window old is admitted and leaves only its own
\* timestamp stored, whatever came before; a denied check stores nothing.
C9_DeniedIdentityRecovers ==
    [][\A id \in Identities : CheckNow(id) =>
          /\ (/\ rate_limit >= 1
              /\ \A k \in 1..Len(requests[id]) : now - requests[id][k] >= window)
             => (/\ requests'[id] = <<now>>
                 /\ admittedLog'[id] = Append(admittedLog[id], now)
                 /\ denied'[id] = denied[id])
          /\ (admittedLog'[id] = admittedLog[id]) => (requests' = requests)]_vars

C9_Witness ==
    \E id \in Identities :
        /\ denied[id] = "earlier"
        /\ requests[id] = <<now>>
        /\ admittedLog[id] = <<now>>
        /\ now = window

\* C10: with several requests of the same client id in flight together, in
\* whatever order their checks run, every timestamp of an admitted check
\* that is less than a window old is still stored (none is lost, none is
\* made up), and no more than rate_limit checks are admitted in a window.
C10_NoLostTimestamp ==
    \A id \in Identities :
        /\ InWindow(id) = admittedLog[id]
        /\ Len(InWindow(id)) <= rate_limit

C10_Witness ==
    /\ raced
    /\ rate_limit >= 1
    /\ Len(admittedLog[ApiKey]) = rate_limit
    /\ denied[ApiKey] = "now"
    /\ \E r \in Reqs : rpc[r] = "arrived"

(***************************************************************************)
(* Claims about the query pipeline                                         *)
(***************************************************************************)
Apology == [kind |-> "return", response |-> "apology", matches |-> 0]

\* C6: when the vector query fails, the handler (CLI or API) still returns
\* the apology with no matches to its caller, and does not raise.
C6_VectorFailureApology ==
    \A p \in Queries :
        (qpc[p] = "done" /\ "retrieve" \in fault[p]) => answer[p] = Apology

\* C7: when any step of the pipeline fails (retrieval, extraction,
\* generation), the handler returns the apology with no matches: never a
\* non-empty match list, never the text of the error.
C7_AnyFailureApology ==
    \A p \in Queries :
        (qpc[p] = "done" /\ fault[p] # {}) =>
            /\ answer[p] = Apology
            /\ answer[p].matches = 0
            /\ answer[p].response # "errtext"

(***************************************************************************)
(* ToolRegistry (core/tool_registry.py)                                    *)
(***************************************************************************)
\* d[k] = v on a dict
DictSet(d, k, v) == [x \in DOMAIN d \cup {k} |-> IF x = k THEN v ELSE d[x]]
\* del d[k] on a dict
DictDel(d, k) == [x \in DOMAIN d \ {k} |-> d[x]]

\* Tool(func, metadata), by the fields of its metadata that a registration
\* chooses
Tool(n, c) == [name |-> n, category |-> c]
\* what get_tool gives for a name that is not registered
NotFound == [name |-> "None", category |-> "None"]
\* ToolRegistry.get_tool
get_tool(n) == IF n \in DOMAIN _tools THEN _tools[n] ELSE NotFound

\* ToolRegistry.list_tools; every ToolCategory is a non-empty str, so
\* `if category:` is taken for each of them and not for None
list_tools(category) ==
    IF category # "None"
    THEN [n \in DOMAIN _categories[category] |-> _categories[category][n]]
    ELSE [n \in DOMAIN _tools |-> _tools[n]]

\* registry.register(name, description, category)(func)
register(n, c) ==
    /\ _tools' = DictSet(_tools, n, Tool(n, c))
    /\ _categories' = [_categories EXCEPT ![c] = DictSet(@, n, Tool(n, c))]
    /\ latest' = [latest EXCEPT ![n] = c]
    /\ UNCHANGED removed
    /\ UNCHANGED <<dispatchVars, rateVars, pipeVars, chunkVars, textVars>>

\* ToolRegistry.remove_tool
remove_tool(n) ==
    /\ IF n \in DOMAIN _tools
       THEN /\ _tools' = DictDel(_tools, n)
            /\ _categories' =
                   [_categories EXCEPT ![_tools[n].category] = DictDel(@, n)]
            /\ latest' = [latest EXCEPT ![n] = "none"]
            /\ removed' = [name |-> n, ret |-> TRUE]
       ELSE /\ removed' = [name |-> n, ret |-> FALSE]
            /\ UNCHANGED <<_tools, _categories, latest>>
    /\ UNCHANGED <<dispatchVars, rateVars, pipeVars, chunkVars, textVars>>

\* ToolRegistry.clear
clear ==
    /\ _tools' = EmptyDict
    /\ _categories' = [c \in ToolCategory |-> EmptyDict]
    /\ latest' = [n \in RegNames |-> "none"]
    /\ UNCHANGED removed
    /\ UNCHANGED <<dispatchVars, rateVars, pipeVars, chunkVars, textVars>>

NextRegistry ==
    \/ \E n \in RegNames, c \in RegCategories : register(n, c)
    \/ \E n \in RegNames : remove_tool(n)
    \/ clear

\* every part as constructed, the registry's operations called in any order
SpecRegistry == InitDispatchOnly /\ [][NextRegistry]_vars

(***************************************************************************)
(* Claims about ToolRegistry                                               *)
(***************************************************************************)
\* the categories whose listing holds a name
ListedUnder(n) == {c \in ToolCategory : n \in DOMAIN list_tools(c)}

\* C11: after any sequence of register, remove_tool and clear, a name is
\* listed under at most one category, that category is the one of its latest
\* registration, and the listings of the categories together hold exactly
\* the names of the listing of all tools.
C11_NameHeldOnce ==
    /\ \A n \in RegNames :
          /\ Cardinality(ListedUnder(n)) <= 1
          /\ \A c \in ListedUnder(n) : c = latest[n]
    /\ UNION {DOMAIN list_tools(c) : c \in ToolCategory}
          = DOMAIN list_tools("None")

\* C12: remove_tool(name) returns true exactly when name is registered;
\* after a true return the name is not found by get_tool and is in no
\* listing, of all tools or of a category; after a false return the registry
\* is as it was; after clear every listing is empty.
C12_RemoveAndClear ==
    /\ [][\A n \in RegNames : remove_tool(n) =>
            /\ removed'.ret = (n \in DOMAIN _tools)
            /\ removed'.ret =>
                  /\ get_tool(n)' = NotFound
                  /\ n \notin DOMAIN list_tools("None")'
                  /\ \A c \in ToolCategory : n \notin DOMAIN list_tools(c)'
            /\ ~removed'.ret =>
                  (_tools' = _tools /\ _categories' = _categories)]_vars
    /\ [][clear =>
            /\ list_tools("None")' = EmptyDict
            /\ \A c \in ToolCategory : list_tools(c)' = EmptyDict]_vars

(***************************************************************************)
(* Python's str operations, on texts held as sequences of characters;      *)
(* indices are Python's, counted from 0                                    *)
(***************************************************************************)
\* where a slice bound falls in a text of length n
SliceBound(i, n) ==
    IF i < 0 THEN (IF i + n < 0 THEN 0 ELSE i + n) ELSE (IF i > n THEN n ELSE i)

\* s[a:b]
Slice(s, a, b) ==
    LET lo == SliceBound(a, Len(s))
        hi == SliceBound(b, Len(s))
    IN  IF lo >= hi THEN <<>> ELSE SubSeq(s, lo + 1, hi)

\* s.rfind(c) for a single character c
RFind(s, c) ==
    LET at == {i \in 1..Len(s) : s[i] = c}
    IN  IF at = {} THEN -1 ELSE (CHOOSE i \in at : \A j \in at : j <= i) - 1

IsSpace(c) == c \in {" ", "\n", "\t"}

\* s.strip()
Strip(s) ==
    LET at == {i \in 1..Len(s) : ~IsSpace(s[i])}
    IN  IF at = {} THEN <<>>
        ELSE SubSeq(s, CHOOSE i \in at : \A j \in 1..(i - 1) : IsSpace(s[j]),
                       CHOOSE i \in at :
                           \A j \in (i + 1)..Len(s) : IsSpace(s[j]))

\* s.replace(a, b) for single characters a and b
ReplaceChar(s, a, b) == [i \in 1..Len(s) |-> IF s[i] = a THEN b ELSE s[i]]

(***************************************************************************)
(* PDFProcessor (tools/document_processing.py)                             *)
(***************************************************************************)
\* PDFProcessor(chunk_size, chunk_overlap): the sizes are stored as given
Construct(size, overlap) ==
    /\ cpc = "unbuilt"
    /\ chunk_size' = size
    /\ chunk_overlap' = overlap
    /\ cpc' = "built"
    /\ UNCHANGED <<text, start, chunks, spans, iterations>>
    /\ UNCHANGED <<dispatchVars, rateVars, pipeVars, registryVars, textVars>>

\* _chunk_text(text) up to the loop: lines 23-25
ChunkText(t) ==
    /\ cpc = "built"
    /\ chunks' = <<>>
    /\ start' = 0
    /\ text' = Strip(ReplaceChar(t, "\n", " "))
    /\ spans' = <<>>
    /\ iterations' = 0
    /\ cpc' = "loop"
    /\ UNCHANGED <<chunk_size, chunk_overlap>>
    /\ UNCHANGED <<dispatchVars, rateVars, pipeVars, registryVars, textVars>>

\* one iteration of `while start < len(text)`: lines 27-40
ChunkStep ==
    /\ cpc = "loop"
    /\ start < Len(text)
    /\ iterations < MaxIters
    /\ LET first_end == start + chunk_size
           first_chunk == Slice(text, start, first_end)
           last_period == RFind(first_chunk, ".")
           back_off == first_end < Len(text) /\ last_period # -1
           chunk == IF back_off THEN Slice(first_chunk, 0, last_period + 1)
                    ELSE first_chunk
           end == IF back_off THEN start + last_period + 1 ELSE first_end
       IN  /\ chunks' = Append(chunks, Strip(chunk))
           /\ spans' = Append(spans, <<SliceBound(start, Len(text)),
                                       SliceBound(start, Len(text)) + Len(chunk)>>)
           /\ start' = end - chunk_overlap
    /\ iterations' = iterations + 1
    /\ UNCHANGED <<chunk_size, chunk_overlap, cpc, text>>
    /\ UNCHANGED <<dispatchVars, rateVars, pipeVars, registryVars, textVars>>

\* the loop ends and chunks is returned: lines 27 and 42
ChunkReturn ==
    /\ cpc = "loop"
    /\ ~(start < Len(text))
    /\ cpc' = "returned"
    /\ UNCHANGED <<chunk_size, chunk_overlap, text, start, chunks, spans,
                   iterations>>
    /\ UNCHANGED <<dispatchVars, rateVars, pipeVars, registryVars, textVars>>

NextChunk ==
    \/ \E size \in 1..MaxSize, overlap \in 0..MaxSize : Construct(size, overlap)
    \/ \E t \in ChunkTexts : ChunkText(t)
    \/ ChunkStep
    \/ ChunkReturn

\* every part as constructed, a PDFProcessor built and run on a text
SpecChunk == InitDispatchOnly /\ [][NextChunk]_vars

(***************************************************************************)
(* Claims about chunking                                                   *)
(***************************************************************************)
\* _chunk_text has returned for sizes with 0 <= overlap < size
ChunkedValid == cpc = "returned" /\ chunk_overlap < chunk_size

\* the first n chunks put together, each but the first without the
\* chunk_overlap characters it shares with the one before it
RECURSIVE Rebuilt(_)
Rebuilt(n) ==
    IF n = 0 THEN <<>>
    ELSE Rebuilt(n - 1) \o
         Slice(chunks[n], IF n = 1 THEN 0 ELSE chunk_overlap, Len(chunks[n]))

\* C13: for 0 <= overlap < size the chunks returned cover the normalized
\* text without a gap: every position of it lies in the slice of some chunk,
\* each next slice starts at or before the end of the one before it, and
\* the chunks put together with the overlaps removed are the text again.
C13_ChunksCoverText ==
    ChunkedValid =>
        /\ \A i \in 0..(Len(text) - 1) :
              \E n \in 1..Len(spans) : spans[n][1] <= i /\ i < spans[n][2]
        /\ \A n \in 2..Len(spans) : spans[n][1] <= spans[n - 1][2]
        /\ Rebuilt(Len(chunks)) = text

\* the least integer not below a / b
CeilDiv(a, b) == (a + b - 1) \div b

\* C14: for 0 <= overlap < size chunking ends after at most
\* ceil(len(text) / (size - overlap)) iterations: on every iteration the
\* start pointer grows and it is never negative.
C14_ChunkingTerminates ==
    /\ [](chunk_overlap < chunk_size =>
              /\ iterations <= CeilDiv(Len(text), chunk_size - chunk_overlap)
              /\ start >= 0)
    /\ [][(ChunkStep /\ chunk_overlap < chunk_size) => start' > start]_vars

\* C15: no PDFProcessor is built or run with overlap >= size.
C15_OverlapRejected ==
    cpc \in {"built", "loop", "returned"} => chunk_overlap < chunk_size

\* C16: a text whose normalized length is positive and smaller than size is
\* returned as exactly one chunk, for every overlap < size.
C16_ShortTextOneChunk ==
    (ChunkedValid /\ 0 < Len(text) /\ Len(text) < chunk_size) =>
        Len(chunks) = 1

(***************************************************************************)
(* More of Python's str operations                                         *)
(***************************************************************************)
UpperCase == <<"A", "B", "C", "D", "E", "F", "G", "H", "I", "J", "K", "L", "M",
               "N", "O", "P", "Q", "R", "S", "T", "U", "V", "W", "X", "Y", "Z">>
LowerCase == <<"a", "b", "c", "d", "e", "f", "g", "h", "i", "j", "k", "l", "m",
               "n", "o", "p", "q", "r", "s", "t", "u", "v", "w", "x", "y", "z">>

\* s.lower(), for ASCII
Lower(s) ==
    [i \in 1..Len(s) |->
        IF \E k \in 1..26 : UpperCase[k] = s[i]
        THEN LowerCase[CHOOSE k \in 1..26 : UpperCase[k] = s[i]]
        ELSE s[i]]

\* s.split(): the maximal runs of characters that are not whitespace
RECURSIVE Split(_)
Split(s) ==
    IF s = <<>> THEN <<>>
    ELSE IF IsSpace(Head(s)) THEN Split(Tail(s))
    ELSE LET stop == CHOOSE i \in 2..(Len(s) + 1) :
                        /\ i = Len(s) + 1 \/ IsSpace(s[i])
                        /\ \A j \in 2..(i - 1) : ~IsSpace(s[j])
         IN  <<SubSeq(s, 1, stop - 1)>> \o Split(SubSeq(s, stop, Len(s)))

\* `needle in hay`
Contains(hay, needle) ==
    \E i \in 0..(Len(hay) - Len(needle)) :
        SubSeq(hay, i + 1, i + Len(needle)) = needle

\* t starts with s
IsPrefix(s, t) == Len(s) <= Len(t) /\ s = SubSeq(t, 1, Len(s))

\* t ends with s
IsSuffix(s, t) ==
    Len(s) <= Len(t) /\ s = SubSeq(t, Len(t) - Len(s) + 1, Len(t))

(***************************************************************************)
(* OllamaTool._get_relevant_history (tools/llm_tools.py)                   *)
(***************************************************************************)
\* sum(word in item['assistant'].lower() for word in words)
RECURSIVE WordsIn(_, _)
WordsIn(words, item) ==
    IF words = <<>> THEN 0
    ELSE (IF Contains(Lower(item.assistant), Head(words)) THEN 1 ELSE 0)
         + WordsIn(Tail(words), item)

\* lines 106-109: the score of a turn for a query
Score(item, q) == WordsIn(Split(Lower(q)), item)

\* an entry sorted in earlier is moved behind one sorted in later
OvertakenOnTie(earlier, later) == earlier < later \/ earlier = later
\* sorted(..., reverse=True) is stable: an entry sorted in later moves ahead
\* of an earlier one only when its key is greater
Overtaken(earlier, later) == earlier < later

\* sorted(scores, key=lambda x: x[1], reverse=True), entry by entry
RECURSIVE SortedDesc(_)
SortedDesc(scores) ==
    IF scores = <<>> THEN <<>>
    ELSE LET n == Len(scores)
             x == scores[n]
             before == SortedDesc(SubSeq(scores, 1, n - 1))
             keep == Cardinality({i \in 1..(n - 1) :
                                    ~Overtaken(before[i][2], x[2])})
         IN  SubSeq(before, 1, keep) \o <<x>> \o SubSeq(before, keep + 1, n - 1)

WholeHistory(history, q, m) == history
\* _get_relevant_history(query, max_items) on a conversation history
_get_relevant_history(history, q, m) ==
    IF history = <<>> THEN <<>>
    ELSE LET scores == [i \in 1..Len(history) |->
                           <<history[i], Score(history[i], q)>>]
             ranked == Slice(SortedDesc(scores), 0, m)
         IN  [i \in 1..Len(ranked) |-> ranked[i][1]]

\* relevant_history = self._get_relevant_history(prompt), called again and
\* again on the same history
GetRelevantHistory ==
    /\ Len(relevant) < 2
    /\ relevant' = Append(relevant,
           _get_relevant_history(conversation_history, query, max_items))
    /\ UNCHANGED <<query, max_items, max_length, given, contents, truncated,
                   section, fitted, full_prompt>>
    /\ UNCHANGED <<dispatchVars, rateVars, pipeVars, registryVars, chunkVars>>

\* a conversation is given; the history is ranked for a query
InitHistoryOnly ==
    /\ InitDispatch /\ IdleRate /\ IdleHandlers /\ InitRegistry /\ InitChunk
    /\ conversation_history \in Histories
    /\ query \in HistoryQueries
    /\ max_items \in 0..MaxTurns
    /\ relevant = <<>>
    /\ max_length = 2000
    /\ given = <<>>
    /\ contents = <<>>
    /\ truncated = <<>>
    /\ section = Unset
    /\ fitted = Unset
    /\ full_prompt = <<>>
SpecHistory == InitHistoryOnly /\ [][GetRelevantHistory]_vars

(***************************************************************************)
(* Claims about history ranking                                            *)
(***************************************************************************)
\* the number of tokens of the case-folded query that occur in the
\* case-folded assistant text of turn i
TokensFound(i) ==
    LET tokens == Split(Lower(query))
    IN  Cardinality({n \in 1..Len(tokens) :
            Contains(Lower(conversation_history[i].assistant), tokens[n])})

\* the number of turns ranked ahead of turn i: those of a higher score, and
\* those of the same score that come earlier in the history
Ahead(i) ==
    Cardinality({j \in 1..Len(conversation_history) :
        \/ TokensFound(j) > TokensFound(i)
        \/ TokensFound(j) = TokensFound(i) /\ j < i})

\* C17: history ranking returns the first max_items turns of the history
\* in the order of non-increasing score, turns of equal score in their
\* order in the history; a repeated call returns the same, and the history
\* is left unchanged.
C17_HistoryRankingStable ==
    /\ [](\A n \in 1..Len(relevant) :
              /\ Len(relevant[n]) =
                    IF max_items < Len(conversation_history)
                    THEN max_items ELSE Len(conversation_history)
              /\ \A i \in 1..Len(conversation_history) :
                    Ahead(i) < max_items =>
                        relevant[n][Ahead(i) + 1] = conversation_history[i])
    /\ [](Len(relevant) = 2 => relevant[1] = relevant[2])
    /\ [][GetRelevantHistory =>
            conversation_history' = conversation_history]_vars

C17_Witness ==
    /\ Len(relevant) = 2
    /\ Len(conversation_history) = 3
    /\ max_items = 2
    /\ TokensFound(1) = TokensFound(3)
    /\ TokensFound(2) > TokensFound(1)
    /\ conversation_history[1] # conversation_history[3]
    /\ relevant[1] = <<conversation_history[2], conversation_history[1]>>

(***************************************************************************)
(* OllamaTool._smart_truncate (tools/llm_tools.py)                         *)
(***************************************************************************)
FitsBelow(t, m) == Len(t) < m
\* line 88: `len(text) <= max_length`
Fits(t, m) == Len(t) <= m

HardCut(t, m) == Slice(t, 0, m)
\* _smart_truncate(text, max_length)
_smart_truncate(t, m) ==
    IF Fits(t, m) THEN t
    ELSE LET cut == Slice(t, 0, m)
             last_period == RFind(cut, ".")
         IN  IF last_period # -1 THEN Slice(cut, 0, last_period + 1) ELSE cut

\* the text is truncated, and what came out is truncated again
SmartTruncate ==
    /\ Len(truncated) < 2
    /\ truncated' = Append(truncated,
           _smart_truncate(IF truncated = <<>> THEN given ELSE truncated[1],
                           max_length))
    /\ UNCHANGED <<query, max_items, relevant, max_length, given, contents,
                   section, fitted, full_prompt>>
    /\ UNCHANGED <<dispatchVars, rateVars, pipeVars, registryVars, chunkVars>>

\* a text and a limit are given
InitTruncateOnly ==
    /\ InitDispatch /\ IdleRate /\ IdlePipe /\ InitRegistry /\ InitChunk
    /\ given \in TruncTexts
    /\ max_length \in 0..(MaxCut + 1)
    /\ truncated = <<>>
    /\ query = <<>>
    /\ max_items = 3
    /\ relevant = <<>>
    /\ contents = <<>>
    /\ section = Unset
    /\ fitted = Unset
    /\ full_prompt = <<>>
SpecTruncate == InitTruncateOnly /\ [][SmartTruncate]_vars

(***************************************************************************)
(* Claims about truncation                                                 *)
(***************************************************************************)
\* C18: truncating what truncation returned, with the same limit, returns
\* it unchanged; and a text no longer than the limit is returned unchanged.
C18_TruncateIdempotent ==
    /\ Len(truncated) = 2 => truncated[2] = truncated[1]
    /\ (Len(truncated) >= 1 /\ Len(given) <= max_length) =>
           truncated[1] = given

C18_Witness ==
    /\ Len(truncated) = 2
    /\ Len(given) > max_length
    /\ truncated[1] # <<>>
    /\ truncated[1] # Slice(given, 0, max_length)

(***************************************************************************)
(* ResponseFormatterTool (tools/response_tools.py)                         *)
(***************************************************************************)
\* s.replace(old, new) for a non-empty old: the occurrences from the left
RECURSIVE Replace(_, _, _)
Replace(s, old, new) ==
    LET at == {i \in 1..(Len(s) - Len(old) + 1) :
                  SubSeq(s, i, i + Len(old) - 1) = old}
    IN  IF at = {} THEN s
        ELSE LET first == CHOOSE i \in at : \A j \in at : i <= j
             IN  SubSeq(s, 1, first - 1) \o new \o
                 Replace(SubSeq(s, first + Len(old), Len(s)), old, new)

\* s.split(c) for a single character c: the pieces between the c's
RECURSIVE SplitAt(_, _)
SplitAt(s, c) ==
    LET at == {i \in 1..Len(s) : s[i] = c}
    IN  IF at = {} THEN <<s>>
        ELSE LET first == CHOOSE i \in at : \A j \in at : i <= j
             IN  <<SubSeq(s, 1, first - 1)>> \o
                 SplitAt(SubSeq(s, first + 1, Len(s)), c)

\* ResponseFormatterTool._clean_text
_clean_text(t) ==
    LET joined == Join(Split(ReplaceChar(t, "\n", " ")), <<" ">>)
        marks == Replace(Replace(Replace(joined, <<" ", ":">>, <<":">>),
                                 <<" ", ".">>, <<".">>),
                         <<" ", ",">>, <<",">>)
    IN  Replace(Replace(Replace(marks, <<"F", " ", "o", "r">>, <<"F", "o", "r">>),
                        <<"T", " ", "o">>, <<"T", "o">>),
                <<"Y", " ", "o", "u">>, <<"Y", "o", "u">>)

OneSentence == 2 - 1
\* line 38
window_size == 5

\* lines 31-35: the index of the first sentence that holds a word of the
\* query, 0 when none does
StartIdx(sentences, q) ==
    LET words == Split(Lower(q))
        hits == {i \in 1..Len(sentences) :
                    \E n \in 1..Len(words) :
                        Contains(Lower(sentences[i]), words[n])}
    IN  IF hits = {} THEN 0 ELSE (CHOOSE i \in hits : \A j \in hits : i <= j) - 1

\* ResponseFormatterTool._extract_section
_extract_section(t, q) ==
    LET sentences == SplitAt(t, ".")
        start_idx == StartIdx(sentences, q)
        context_window == Slice(sentences, start_idx, start_idx + window_size)
        stripped == [i \in 1..Len(context_window) |-> Strip(context_window[i])]
    IN  Join(SelectSeq(stripped, LAMBDA x : x # <<>>), <<".", " ">>) \o <<".">>

\* ResponseFormatterTool.format(query, results), results given by the
\* content of each match
format(q, res) ==
    IF res = <<>> THEN [kind |-> "None", text |-> <<>>]
    ELSE [kind |-> "str", text |-> _extract_section(_clean_text(res[1]), q)]

\* context = None; if results: context = await execute_tool(
\* "format_response", query, results)
FormatCall ==
    /\ section = Unset
    /\ section' = IF Truthy(Len(contents)) THEN format(query, contents)
                  ELSE [kind |-> "None", text |-> <<>>]
    /\ UNCHANGED <<query, max_items, relevant, max_length, given, contents,
                   truncated, fitted, full_prompt>>
    /\ UNCHANGED <<dispatchVars, rateVars, pipeVars, registryVars, chunkVars>>

(***************************************************************************)
(* OllamaTool.generate_response up to the provider call: the context is    *)
(* cut to size and the prompt is built (tools/llm_tools.py)                *)
(***************************************************************************)
\* "Previous conversation:\n"
PreviousConversation ==
    <<"P", "r", "e", "v", "i", "o", "u", "s", " ", "c", "o", "n", "v", "e",
      "r", "s", "a", "t", "i", "o", "n", ":", "\n">>
\* "Reference information:\n"
ReferenceInformation ==
    <<"R", "e", "f", "e", "r", "e", "n", "c", "e", " ", "i", "n", "f", "o",
      "r", "m", "a", "t", "i", "o", "n", ":", "\n">>
\* "Current question: "
CurrentQuestion ==
    <<"C", "u", "r", "r", "e", "n", "t", " ", "q", "u", "e", "s", "t", "i",
      "o", "n", ":", " ">>

\* _build_context(prompt, context, relevant_history); `if context:` is not
\* taken for None and not for ""
_build_context(prompt, ctx, relevant_history) ==
    LET turn(msg) ==
            <<"U", "s", "e", "r", ":", " ">> \o msg.user \o
            <<"\n", "A", "s", "s", "i", "s", "t", "a", "n", "t", ":", " ">> \o
            msg.assistant
        history_context ==
            Join([i \in 1..Len(relevant_history) |-> turn(relevant_history[i])],
                 <<"\n">>)
        parts ==
            (IF relevant_history # <<>>
             THEN <<PreviousConversation \o history_context>> ELSE <<>>) \o
            (IF ctx.kind = "str" /\ ctx.text # <<>>
             THEN <<ReferenceInformation \o ctx.text>> ELSE <<>>) \o
            <<CurrentQuestion \o prompt>>
    IN  Join(parts, <<"\n", "\n">>)

\* generate_response, lines 119-130, called with the query and the context
\* the handler holds
BuildPrompt ==
    /\ section # Unset
    /\ full_prompt = <<>>
    /\ LET ctx == IF /\ section.kind = "str" /\ section.text # <<>>
                      /\ Len(section.text) > max_context_length
                   THEN [kind |-> "str",
                         text |-> _smart_truncate(section.text,
                                                  max_context_length)]
                   ELSE section
       IN  /\ fitted' = ctx
           /\ full_prompt' =
                  _build_context(query, ctx,
                      _get_relevant_history(conversation_history, query,
                                            max_items))
    /\ UNCHANGED <<query, max_items, relevant, max_length, given, contents,
                   truncated, section>>
    /\ UNCHANGED <<dispatchVars, rateVars, pipeVars, registryVars, chunkVars>>

\* the handler from its matches to the prompt
NextPrompt == FormatCall \/ BuildPrompt

\* a query, the matches found for it and the conversation so far are given
InitPromptOnly ==
    /\ InitDispatch /\ IdleRate /\ IdleHandlers /\ InitRegistry /\ InitChunk
    /\ conversation_history \in PromptHistories
    /\ query \in HistoryQueries
    /\ contents \in PromptResults
    /\ section = Unset
    /\ max_items = 3
    /\ relevant = <<>>
    /\ max_length = 2000
    /\ given = <<>>
    /\ truncated = <<>>
    /\ fitted = Unset
    /\ full_prompt = <<>>
SpecPrompt == InitPromptOnly /\ [][NextPrompt]_vars

\* a query and the matches found for it are given
InitFormatOnly ==
    /\ InitDispatch /\ IdleRate /\ IdlePipe /\ InitRegistry /\ InitChunk
    /\ query \in DocQueries
    /\ contents \in DocResults
    /\ section = Unset
    /\ max_items = 3
    /\ relevant = <<>>
    /\ max_length = 2000
    /\ given = <<>>
    /\ truncated = <<>>
    /\ fitted = Unset
    /\ full_prompt = <<>>
SpecFormat == InitFormatOnly /\ [][FormatCall]_vars

(***************************************************************************)
(* Claims about window extraction                                          *)
(***************************************************************************)
\* format has returned for the visitor parking case: the query "What are
\* visitor parking hours?" and the single match of two sentences
ParkingCase ==
    /\ section # Unset
    /\ query = ParkingQuery
    /\ contents = <<ParkingContent>>

\* C19 as stated: in the visitor parking case window extraction returns
\* only the first sentence, "Visitor parking is open from 6am to 10pm
\* daily.".
C19_ParkingFirstSentenceOnly ==
    ParkingCase => section = [kind |-> "str", text |-> ParkingFirstSentence]

\* C19 as the code has it: in the visitor parking case window extraction
\* returns both sentences, the first one, which holds a word of the query,
\* and the one after it, which lies within the window of 5 sentences.
C19_ParkingBothSentences ==
    ParkingCase => section = [kind |-> "str", text |-> ParkingContent]

C19_Witness ==
    /\ ParkingCase
    /\ section.kind = "str"
    /\ Len(section.text) > Len(ParkingFirstSentence)

\* C23: window extraction returns the first sentence that holds a word of
\* the case-folded query and the 4 sentences after it, joined and ended
\* with '.', and the first 5 sentences when no sentence holds a word of the
\* query; the sentences of a text are the pieces between its '.' that are
\* not blank.
C23_WindowOfFive ==
    (section.kind = "str" /\ Len(contents) = 1) =>
        LET pieces == SplitAt(_clean_text(contents[1]), ".")
            stripped == [i \in 1..Len(pieces) |-> Strip(pieces[i])]
            sentences == SelectSeq(stripped, LAMBDA x : x # <<>>)
            start_idx == StartIdx(sentences, query)
            five == Slice(sentences, start_idx, start_idx + 5)
        IN  section.text = Join(five, <<".", " ">>) \o <<".">>

(***************************************************************************)
(* Claims about the order of the pipeline's steps                          *)
(***************************************************************************)
\* the steps of one invocation, with and without the extraction
AllSteps ==
    <<"retrieve", "extract", "truncate", "assemble", "generate", "record">>
StepsWithoutExtract ==
    <<"retrieve", "truncate", "assemble", "generate", "record">>

\* C20: within one invocation the steps complete one at a time in the order
\* retrieve, extract window, truncate, assemble prompt, generate, record;
\* extraction is run exactly when retrieval returned a match; the turn is
\* recorded only after the provider has returned its response.
C20_StepsInOrder ==
    /\ [](\A p \in Queries :
              /\ IsPrefix(trace[p], AllSteps)
                     \/ IsPrefix(trace[p], StepsWithoutExtract)
              /\ Len(trace[p]) >= 2 =>
                     (trace[p][2] = "extract" <=> results[p] > 0)
              /\ Len(trace[p]) = 6 => response[p] = "llm")
    /\ [][\A p \in Queries :
            /\ trace'[p] # trace[p] =>
                  /\ Len(trace'[p]) = Len(trace[p]) + 1
                  /\ \A q \in Queries \ {p} : trace'[q] = trace[q]
            /\ qpc[p] = "format" => results[p] > 0]_vars
    /\ [][Len(conversation_history') > Len(conversation_history) =>
            \E p \in Queries :
                /\ response[p] = "llm"
                /\ trace[p][Len(trace[p])] = "generate"
                /\ trace'[p][Len(trace'[p])] = "record"
                /\ conversation_history' =
                       Append(conversation_history,
                              [user |-> p, assistant |-> "llm"])]_vars

C20_Witness ==
    /\ mode = "cli"
    /\ \E p, q \in Queries :
          /\ trace[p] = AllSteps
          /\ trace[q] = StepsWithoutExtract
          /\ qpc[p] = "done" /\ qpc[q] = "done"
    /\ Len(conversation_history) = 2

(***************************************************************************)
(* Claims about the prompt                                                 *)
(***************************************************************************)
\* C22: the context handed to the provider is never longer than 2000
\* characters: whatever context generate_response is given, the context in
\* the prompt is a prefix of it of at most 2000 characters: the given
\* context itself when that has at most 2000 characters, and otherwise its
\* first 2000 characters cut after the last '.' among them, or all 2000 of
\* them when there is no '.' among them.
C22_ContextWithinLimit ==
    (full_prompt # <<>> /\ section.kind = "str") =>
        LET dots == {i \in 1..2000 : section.text[i] = "."}
        IN  /\ fitted.kind = "str"
            /\ Len(fitted.text) <= 2000
            /\ fitted.text = SubSeq(section.text, 1, Len(fitted.text))
            /\ Len(section.text) <= 2000 => fitted.text = section.text
            /\ Len(section.text) > 2000 =>
                   Len(fitted.text) =
                       IF dots = {} THEN 2000
                       ELSE CHOOSE i \in dots : \A j \in dots : j <= i
            /\ IsSuffix(ReferenceInformation \o fitted.text \o
                            <<"\n", "\n">> \o CurrentQuestion \o query,
                        full_prompt)

\* a context of more than 2000 characters was cut after a sentence end
C22_Witness ==
    /\ full_prompt # <<>>
    /\ section.kind = "str"
    /\ Len(section.text) > 2000
    /\ Len(fitted.text) < 2000
    /\ fitted.text[Len(fitted.text)] = "."

\* C24: the assembled prompt holds the "Previous conversation" section
\* exactly when a history turn was selected, and then at most 3 turns; it
\* holds the "Reference information" section exactly when the context is
\* present and not empty; it always ends with the current question; no
\* section header is followed by an empty body; and when retrieval found
\* no match the context is absent and the generation is still invoked,
\* with a prompt that has no "Reference information" section.
C24_PromptSections ==
    /\ full_prompt # <<>> =>
           LET n == Len(conversation_history)
               user == <<"U", "s", "e", "r", ":", " ">>
               turns == {i \in 1..(Len(full_prompt) - Len(user) + 1) :
                            SubSeq(full_prompt, i, i + Len(user) - 1) = user}
           IN  /\ Contains(full_prompt, PreviousConversation) <=> n > 0
               /\ n > 0 => IsPrefix(PreviousConversation \o user, full_prompt)
               /\ Cardinality(turns) = IF n < 3 THEN n ELSE 3
               /\ Contains(full_prompt, ReferenceInformation) <=>
                      (section.kind = "str" /\ section.text # <<>>)
               /\ IsSuffix(CurrentQuestion \o query, full_prompt)
               /\ \A header \in {PreviousConversation, ReferenceInformation} :
                      /\ ~Contains(full_prompt, header \o <<"\n">>)
                      /\ ~IsSuffix(header, full_prompt)
    /\ (contents = <<>> /\ section # Unset) =>
           /\ section.kind = "None"
           /\ full_prompt # <<>> =>
                  /\ fitted.kind = "None"
                  /\ ~Contains(full_prompt, ReferenceInformation)

\* a prompt is built from a conversation of more than 3 turns and a context
C24_Witness ==
    /\ full_prompt # <<>>
    /\ Len(conversation_history) > 3
    /\ section.kind = "str"
    /\ Contains(full_prompt, ReferenceInformation \o section.text)

C26_ArgumentsPassedOn ==
    \A i \in Calls : runs[i] > 0 => received[i] = passed[i]

C27_AdmissionFirst ==
    \A p \in Queries :
        mode = "api" =>
            /\ answer[p].kind = "http429" => invoked[p] = <<"check">>
            /\ invoked[p] # <<>> => invoked[p][1] = "check"

(***************************************************************************)
(* Claims about the conversation history                                   *)
(***************************************************************************)
\* C21: the conversation history changes only by appending: a generation
\* that succeeds appends exactly one turn (its query, the response) at the
\* end and leaves the earlier turns as they were, a generation that fails
\* leaves the history unchanged, and with the calls of several callers
\* interleaved on one instance the history holds one turn for each call
\* that succeeded.
C21_HistoryOnlyAppended ==
    /\ [][conversation_history' # conversation_history =>
            \E p \in Queries :
                /\ qpc[p] = "record" /\ qpc'[p] = "done"
                /\ response[p] = "llm"
                /\ conversation_history' =
                       conversation_history \o
                           <<[user |-> p, assistant |-> response[p]]>>]_vars
    /\ [][\A p \in Queries :
            (qpc[p] = "record" /\ qpc'[p] = "done") =>
                /\ Len(conversation_history') = Len(conversation_history) + 1
                /\ conversation_history'[Len(conversation_history')].user = p]_vars
    /\ [](\A p \in Queries :
              "generate" \in fault[p] =>
                  \A i \in 1..Len(conversation_history) :
                      conversation_history[i].user # p)
    /\ [](Len(conversation_history) =
              Cardinality({p \in Queries :
                  trace[p] # <<>> /\ trace[p][Len(trace[p])] = "record"}))

\* two calls are in flight together on one instance and the one that
\* started later is recorded first
C21_Witness ==
    /\ mode = "gather"
    /\ Len(conversation_history) = 2
    /\ conversation_history[1].user = 2
    /\ conversation_history[2].user = 1

====
